---- MODULE Spec2Model ----
(***************************************************************************)
(* Monopoly Online client: the WebSocketService singleton, the App         *)
(* component that registers its message handlers on it, the LoginScreen    *)
(* form and the ErrorPopup, with the user, the server, the socket events   *)
(* and the timers as the environment.                                      *)
(***************************************************************************)
EXTENDS Integers, Sequences, FiniteSets, TLC

\* ------------------------------------------------------------ constants
maxReconnectAttempts == 5
lobbyCodeLength == 6
MinUsernameLen == 2
MaxUsernameLen == 20

\* ------------------------------------------------------------ bounds
\* longest run of leading / trailing blanks of a typed username
MaxPad == 1
\* longest trimmed username that is typed
MaxCore == 21
\* most theme steps (toggles and page loads) of one run
MaxThemeSteps == 5
\* most sockets, not yet closed or due from a pending reconnect timer, up to
\* which a caller other than the reconnect timer still calls connect()
MaxSockets == 2
\* most frames that arrive on one socket
MaxFrames == 3

\* ------------------------------------------------------------ JS values
\* Every JavaScript value is a record tagged with its typeof-like kind.
Undef == [t |-> "undefined"]
JNull == [t |-> "null"]
\* a string literal of the code or of the protocol
JStr(s) == [t |-> "string", v |-> s]
\* a string typed into the username field, see S below
JText(s) == [t |-> "string", s |-> s]
\* a string typed into the lobby-code field: its sequence of characters
JCode(c) == [t |-> "string", c |-> c]
JNum(n) == [t |-> "number", v |-> n]
JArr(s) == [t |-> "array", v |-> s]
JObj(f) == [t |-> "object", f |-> f]
EmptyObj == JObj(<<>>)

\* A string of the login form, kept as the lengths trim() and .length see:
\* `lead` blanks, then `core` characters that start and end with a non-blank
\* (0 when the string is all blanks), then `trail` blanks.
S(lead, core, trail) == [lead |-> lead, core |-> core, trail |-> trail]
EmptyS == S(0, 0, 0)
StrLen(s) == s.lead + s.core + s.trail
Trim(s) == S(0, s.core, 0)

\* ToBoolean of a JS value
Truthy(v) ==
    CASE v.t = "undefined" -> FALSE
      [] v.t = "null" -> FALSE
      [] v.t = "number" -> v.v # 0
      [] v.t = "string" ->
            IF "v" \in DOMAIN v THEN v.v # ""
            ELSE IF "s" \in DOMAIN v THEN StrLen(v.s) # 0
            ELSE Len(v.c) # 0
      [] OTHER -> TRUE

\* a || b
Or(a, b) == IF Truthy(a) THEN a ELSE b

\* v.name for a value that is neither null nor undefined
Get(v, name) ==
    IF v.t = "object" /\ name \in DOMAIN v.f THEN v.f[name] ELSE Undef

\* A text is either well-formed JSON for a value, or not JSON at all.
Garbage == [wf |-> FALSE]
Json(v) == [wf |-> TRUE, v |-> v]

\* JSON.parse: the value, or a SyntaxError
JSONparse(text) ==
    IF text.wf THEN [ok |-> TRUE, v |-> text.v] ELSE [ok |-> FALSE]

\* JSON.stringify leaves out the properties whose value is undefined
StripUndef(v) ==
    IF v.t = "object"
    THEN JObj([k \in {n \in DOMAIN v.f : v.f[n] # Undef} |-> v.f[k]])
    ELSE v
JSONstringify(v) ==
    IF v.t = "object"
    THEN Json(JObj([k \in {n \in DOMAIN v.f : v.f[n] # Undef} |-> StripUndef(v.f[k])]))
    ELSE Json(v)

\* ------------------------------------------------------------ state
VARIABLES
    \* WebSocketService
    ws,                 \* readyState of the socket this.ws refers to, or "null"
    orphans,            \* sockets the service created and no longer refers to
    messageHandlers,    \* Map: message type -> handler
    isConnected,
    reconnectAttempts,
    timers,             \* reconnect timers set and not yet fired or cleared
    reconnectTimer,     \* TRUE while the timer this.reconnectTimer names is pending
    \* App, LoginScreen, ErrorPopup
    app,                \* App's useState cells
    login,              \* LoginScreen's useState cells
    mounted,            \* the App component is mounted
    exposed,            \* window.wsService has been set
    joinWait,           \* the handleJoinClick call suspended at await connect()
    errorTimers,        \* ids of the errors whose auto-close timer is pending
    \* observation of the last step
    invoked,            \* handler invocations of the last step, in order
    escaped,            \* an exception left the operation of the last step
    sent,               \* texts handed to the open socket in the last step
    \* history
    scheduledSinceOpen, \* reconnect timers set since the last onopen
    dropped,            \* some inbound message has been dropped
    lostOnce,           \* an established connection has been lost
    \* theme
    theme,              \* App's theme state
    localStorage,       \* the item 'theme' of localStorage, or NoItem
    rootTheme,          \* the theme whose properties the document root carries
    themeLog,           \* the theme steps so far and the theme after each
    \* a direct call of send
    returned,           \* what the last direct call of send returned, or "none"
    \* frames
    arrived,            \* number of frames that have arrived on the socket
    reads,              \* Blob frames whose text() is pending: [seq, data]
    dispatchLog         \* arrival numbers of the frames given to a handler, in
                        \* the order of the calls

svcVars == <<ws, orphans, messageHandlers, isConnected, reconnectAttempts,
             timers, reconnectTimer>>
uiVars == <<app, login, mounted, exposed, joinWait, errorTimers>>
obsVars == <<invoked, escaped, sent, scheduledSinceOpen, dropped, lostOnce>>
themeVars == <<theme, localStorage, rootTheme, themeLog>>
frameVars == <<arrived, reads, dispatchLog>>
vars == <<svcVars, uiVars, obsVars, themeVars, returned, frameVars>>

\* ------------------------------------------------------------ WebSocketService
\* Map.has / Map.get with a JS value as the key
Has(handlers, key) == key.t = "string" /\ "v" \in DOMAIN key /\ key.v \in DOMAIN handlers

IsFunction(h) == h.fn # "notAFunction"

\* on(messageType, handler): the new map, or the thrown Error
on(handlers, messageType, handler) ==
    IF ~IsFunction(handler)
    THEN [threw |-> TRUE, map |-> handlers]
    ELSE [threw |-> FALSE,
          map |-> [k \in DOMAIN handlers \cup {messageType} |->
                      IF k = messageType THEN handler ELSE handlers[k]]]

\* off as it would be with clear() in place of delete()
offClear(handlers, messageType) == <<>>

\* off(messageType)
off(handlers, messageType) ==
    [k \in DOMAIN handlers \ {messageType} |-> handlers[k]]

\* WebSocket.send by readyState: throws while CONNECTING, transmits while OPEN,
\* discards while CLOSING or CLOSED
SocketSend(state, text) ==
    CASE state = "connecting" -> [threw |-> TRUE, wire |-> <<>>]
      [] state = "open" -> [threw |-> FALSE, wire |-> <<text>>]
      [] OTHER -> [threw |-> FALSE, wire |-> <<>>]

\* send as it would be without its try/catch
sendNoCatch(type, data, connected, sock) ==
    IF ~connected \/ sock = "null"
    THEN [ok |-> FALSE, wire |-> <<>>, threw |-> FALSE]
    ELSE LET message == JObj([type |-> JStr(type), data |-> data])
             r == SocketSend(sock, JSONstringify(message))
         IN  IF r.threw THEN [ok |-> FALSE, wire |-> <<>>, threw |-> TRUE]
             ELSE [ok |-> TRUE, wire |-> r.wire, threw |-> FALSE]

\* send(type, data): the boolean it returns, what reached the wire, and
\* whether an exception left it
send(type, data, connected, sock) ==
    IF ~connected \/ sock = "null"
    THEN [ok |-> FALSE, wire |-> <<>>, threw |-> FALSE]
    ELSE LET message == JObj([type |-> JStr(type), data |-> data])
             r == SocketSend(sock, JSONstringify(message))
         IN  IF r.threw THEN [ok |-> FALSE, wire |-> <<>>, threw |-> FALSE]
             ELSE [ok |-> TRUE, wire |-> r.wire, threw |-> FALSE]

requestJoin(username, lobbyCode, connected, sock) ==
    send("REQUEST_JOIN", JObj([username |-> username, lobby |-> lobbyCode]), connected, sock)
createGame(username, connected, sock) ==
    send("GAME_CREATE", JObj([username |-> username]), connected, sock)
startGame(connected, sock) == send("GAME_START", EmptyObj, connected, sock)
finishTurn(username, connected, sock) ==
    send("FINISH_TURN", JObj([player |-> username]), connected, sock)
requestRoll(connected, sock) == send("REQUEST_ROLL", EmptyObj, connected, sock)
\* sendChoice as it would be under the name of the inbound message
sendChoiceAsChoice(label, connected, sock) ==
    send("CHOICE", JObj([label |-> label]), connected, sock)
sendChoice(label, connected, sock) ==
    send("CHOICE_RESPONSE", JObj([label |-> label]), connected, sock)

\* ------------------------------------------------------------ App handlers
\* A handler is the useCallback closure: its function and what it captured.
H(fn, scene, username) == [fn |-> fn, scene |-> scene, username |-> username]
NotAFunction == H("notAFunction", "-", EmptyS)

NoError == [id |-> 0]
NoPrompt == [open |-> FALSE]
NoOnClose == [kind |-> "none", scene |-> "-"]

\* each setError call makes a new object: its identity is an id other than
\* the id of the error it replaces
NewErrorId(error) == IF error.id = 1 THEN 2 ELSE 1

\* handleError as it would be if an error sent the user back to the login scene
handleErrorToLogin(h, data, a) ==
    [threw |-> FALSE,
     app |-> [a EXCEPT !.currentScene = "login",
                       !.error =
                [id |-> NewErrorId(a.error),
                 code |-> Get(data, "code"),
                 message |-> Or(Get(data, "message"), JStr("An error occurred")),
                 onClose |-> [kind |-> "resetIfLogin", scene |-> h.scene]]]]

\* handleError (the closure captured currentScene for onClose)
handleError(h, data, a) ==
    [threw |-> FALSE,
     app |-> [a EXCEPT !.error =
                [id |-> NewErrorId(a.error),
                 code |-> Get(data, "code"),
                 message |-> Or(Get(data, "message"), JStr("An error occurred")),
                 onClose |-> [kind |-> "resetIfLogin", scene |-> h.scene]]]]

\* handleNewGame
handleNewGame(h, data, a) ==
    [threw |-> FALSE,
     app |-> [a EXCEPT !.gameData = [lobbyCode |-> Get(data, "lobbyCode"),
                                     currentTurn |-> JNull],
                       !.isHost = TRUE,
                       !.currentScene = "game"]]

\* (data.players || []).forEach(player => player.username ...) throws a
\* TypeError for a non-array and for a null or undefined element
PlayersThrow(players) ==
    \/ players.t # "array"
    \/ \E i \in DOMAIN players.v : players.v[i].t \in {"null", "undefined"}

\* handleJoinGame: the setState calls made before the throw still take effect
handleJoinGame(h, data, a) ==
    LET a1 == [a EXCEPT !.gameData = [lobbyCode |-> Undef, currentTurn |-> JNull],
                        !.isHost = FALSE]
    IN  IF PlayersThrow(Or(Get(data, "players"), JArr(<<>>)))
        THEN [threw |-> TRUE, app |-> a1]
        ELSE [threw |-> FALSE, app |-> [a1 EXCEPT !.currentScene = "game"]]

\* handleNextTurn
handleNextTurn(h, data, a) ==
    [threw |-> FALSE,
     app |-> [a EXCEPT !.gameData.currentTurn = Get(data, "player")]]

\* handleChoice
handleChoice(h, data, a) ==
    LET payload == Or(data, EmptyObj)
        options == Or(Get(payload, "OPTIONS"), Or(Get(payload, "options"), JArr(<<>>)))
    IN  [threw |-> FALSE,
         app |-> [a EXCEPT !.choicePrompt = [open |-> TRUE, options |-> options]]]

\* the call handler(arg): what it does to the App state, and whether it throws
RunHandler(h, arg, a) ==
    CASE h.fn = "handleError" -> handleError(h, arg, a)
      [] h.fn = "handleNewGame" -> handleNewGame(h, arg, a)
      [] h.fn = "handleJoinGame" -> handleJoinGame(h, arg, a)
      [] h.fn = "handleNextTurn" -> handleNextTurn(h, arg, a)
      [] h.fn = "handleChoice" -> handleChoice(h, arg, a)
      [] OTHER -> [threw |-> FALSE, app |-> a]

\* handleMessage as it would be if the handler were always given message.data
handleMessageDataOnly(data, handlers, a) ==
    LET parsed == JSONparse(data) IN
    IF ~parsed.ok \/ parsed.v.t \in {"null", "undefined"}
           \/ ~Has(handlers, Get(parsed.v, "type"))
    THEN [calls |-> <<>>, app |-> a, escaped |-> FALSE]
    ELSE LET handler == handlers[Get(parsed.v, "type").v]
             arg == Get(parsed.v, "data")
         IN  [calls |-> <<[h |-> handler, arg |-> arg]>>,
              app |-> RunHandler(handler, arg, a).app, escaped |-> FALSE]

\* handleMessage as it would be without its try/catch
handleMessageNoCatch(data, handlers, a) ==
    LET parsed == JSONparse(data) IN
    IF ~parsed.ok \/ parsed.v.t \in {"null", "undefined"}
    THEN [calls |-> <<>>, app |-> a, escaped |-> TRUE]
    ELSE IF ~Has(handlers, Get(parsed.v, "type"))
    THEN [calls |-> <<>>, app |-> a, escaped |-> FALSE]
    ELSE LET handler == handlers[Get(parsed.v, "type").v]
             arg == Or(Get(parsed.v, "data"), parsed.v)
             r == RunHandler(handler, arg, a)
         IN  [calls |-> <<[h |-> handler, arg |-> arg]>>,
              app |-> r.app, escaped |-> r.threw]

\* handleMessage(data) with its try/catch: the handler calls it makes, the
\* App state they leave, and whether an exception leaves handleMessage
handleMessage(data, handlers, a) ==
    LET parsed == JSONparse(data) IN
    IF ~parsed.ok
    THEN [calls |-> <<>>, app |-> a, escaped |-> FALSE]
    ELSE LET message == parsed.v IN
         IF message.t \in {"null", "undefined"}
         THEN \* message.type throws a TypeError, which the catch logs
              [calls |-> <<>>, app |-> a, escaped |-> FALSE]
         ELSE LET messageType == Get(message, "type") IN
              IF Has(handlers, messageType)
              THEN LET handler == handlers[messageType.v]
                       arg == Or(Get(message, "data"), message)
                       r == RunHandler(handler, arg, a)
                   IN  [calls |-> <<[h |-> handler, arg |-> arg]>>,
                        app |-> r.app, escaped |-> FALSE]
              ELSE [calls |-> <<>>, app |-> a, escaped |-> FALSE]

\* ------------------------------------------------------------ App effects
AppTypes == <<"ERROR", "NEW_GAME", "JOIN_GAME", "NEXT_TURN", "CHOICE">>

\* the closures of one render of App
AppHandler(type, a) ==
    CASE type = "ERROR" -> H("handleError", a.currentScene, EmptyS)
      [] type = "NEW_GAME" -> H("handleNewGame", "-", a.username)
      [] type = "JOIN_GAME" -> H("handleJoinGame", "-", EmptyS)
      [] type = "NEXT_TURN" -> H("handleNextTurn", "-", a.username)
      [] type = "CHOICE" -> H("handleChoice", "-", EmptyS)

RECURSIVE RegisterFrom(_, _, _)
RegisterFrom(handlers, i, a) ==
    IF i > Len(AppTypes) THEN handlers
    ELSE RegisterFrom(on(handlers, AppTypes[i], AppHandler(AppTypes[i], a)).map, i + 1, a)

RECURSIVE UnregisterFrom(_, _)
UnregisterFrom(handlers, i) ==
    IF i > Len(AppTypes) THEN handlers
    ELSE UnregisterFrom(off(handlers, AppTypes[i]), i + 1)

\* the handler-registration effect: its body, and its cleanup
RegisterHandlers(handlers, a) == RegisterFrom(handlers, 1, a)
UnregisterHandlers(handlers) == UnregisterFrom(handlers, 1)

\* the effect runs again when one of the closures it depends on changed
HandlersEffect(handlers, old, new) ==
    IF old.currentScene = new.currentScene /\ old.username = new.username
    THEN handlers
    ELSE RegisterHandlers(UnregisterHandlers(handlers), new)

\* ErrorPopup's effect as it would be without the cleanup it returns
ErrorPopupEffectNoCleanup(timersNow, old, new) ==
    IF old.error = new.error THEN timersNow
    ELSE timersNow \cup (IF new.error = NoError THEN {} ELSE {new.error.id})

\* ErrorPopup's effect: when `error` changed, clear the timer set for the old
\* error and, for a new error, set its own
ErrorPopupEffect(timersNow, old, new) ==
    IF old.error = new.error THEN timersNow
    ELSE (timersNow \ {old.error.id}) \cup (IF new.error = NoError THEN {} ELSE {new.error.id})

\* handleCloseError
handleCloseError(a) == [a EXCEPT !.error = NoError]

\* the scene rendering of App: which of the two views is in the tree
Rendered(a) ==
    (IF a.currentScene = "login" THEN {"LoginScreen"} ELSE {})
        \cup (IF a.currentScene = "game" THEN {"GameBoard"} ELSE {})

\* ------------------------------------------------------------ theme
themes == {"dark", "light"}
NoItem == "null"
NoTheme == "none"

\* applyTheme as it would be without storing the preference
applyThemeNoStore(themeName, store, root) ==
    IF themeName \notin themes
    THEN [localStorage |-> store, rootTheme |-> root]
    ELSE [localStorage |-> store, rootTheme |-> themeName]

\* applyTheme(themeName): the stored item and the root's theme it leaves
applyTheme(themeName, store, root) ==
    IF themeName \notin themes
    THEN [localStorage |-> store, rootTheme |-> root]
    ELSE [localStorage |-> themeName, rootTheme |-> themeName]

\* getStoredTheme(): localStorage.getItem('theme') || 'dark'
getStoredTheme(store) == IF store = NoItem \/ store = "" THEN "dark" ELSE store

\* toggleTheme: the new theme state
toggleTheme(current) == IF current = "dark" THEN "light" ELSE "dark"

\* ------------------------------------------------------------ LoginScreen
\* characters of a lobby code: an upper-case letter or digit, a lower-case
\* letter, a blank, and a character that is none of these
Chars == {"A", "a", " ", "-"}
IsAlnum(c) == c \in {"A", "a"}
ToUpper(c) == IF c = "a" THEN "A" ELSE c

\* String.prototype.toUpperCase, slice(0, n), trim on a sequence of characters
ToUpperCase(str) == [i \in DOMAIN str |-> ToUpper(str[i])]
Slice(str, n) == IF Len(str) <= n THEN str ELSE SubSeq(str, 1, n)
RECURSIVE TrimStart(_)
TrimStart(str) ==
    IF str # <<>> /\ Head(str) = " " THEN TrimStart(Tail(str)) ELSE str
RECURSIVE TrimEnd(_)
TrimEnd(str) ==
    IF str # <<>> /\ str[Len(str)] = " "
    THEN TrimEnd(SubSeq(str, 1, Len(str) - 1)) ELSE str
TrimCode(str) == TrimEnd(TrimStart(str))

\* validateUsername: the error message, "" for null
validateUsername(value) ==
    IF StrLen(Trim(value)) = 0 THEN "Username is required"
    ELSE IF StrLen(value) < MinUsernameLen THEN "Username must be at least 2 characters"
    ELSE IF StrLen(value) > MaxUsernameLen THEN "Username must not exceed 20 characters"
    ELSE ""

\* validateLobbyCode as it would be without the test of the characters
validateLobbyCodeAnyChars(value) ==
    IF TrimCode(value) = <<>> THEN "Lobby code is required"
    ELSE IF Len(value) # lobbyCodeLength THEN "Lobby code must be 6 characters"
    ELSE ""

\* validateLobbyCode: the error message, "" for null
validateLobbyCode(value) ==
    IF TrimCode(value) = <<>> THEN "Lobby code is required"
    ELSE IF Len(value) # lobbyCodeLength THEN "Lobby code must be 6 characters"
    ELSE IF \E i \in DOMAIN value : ~IsAlnum(value[i])
         THEN "Lobby code must contain only letters and numbers"
    ELSE ""

NoErrors == [username |-> "", lobbyCode |-> ""]
LoginInit == [username |-> EmptyS, lobbyCode |-> <<>>, isLoading |-> FALSE,
              errors |-> NoErrors]

\* handleUsernameChange
handleUsernameChange(l, value) ==
    [l EXCEPT !.username = value, !.errors.username = ""]

\* handleLobbyCodeChange: upper-cased and cut to lobbyCodeLength
handleLobbyCodeChange(l, raw) ==
    [l EXCEPT !.lobbyCode = Slice(ToUpperCase(raw), lobbyCodeLength),
              !.errors.lobbyCode = ""]

\* handleSubmit: the form state, and the arguments of onJoin when it is called
handleSubmit(l) ==
    LET usernameError == validateUsername(l.username)
        lobbyCodeError == validateLobbyCode(l.lobbyCode)
    IN  IF usernameError # "" \/ lobbyCodeError # ""
        THEN [join |-> FALSE,
              login |-> [l EXCEPT !.errors = [username |-> usernameError,
                                             lobbyCode |-> lobbyCodeError]]]
        ELSE [join |-> TRUE,
              login |-> [l EXCEPT !.errors = NoErrors, !.isLoading = TRUE],
              username |-> Trim(l.username),
              lobbyCode |-> TrimCode(l.lobbyCode)]

\* handleCreateLobby
handleCreateLobby(l) ==
    LET usernameError == validateUsername(l.username)
    IN  IF usernameError # ""
        THEN [join |-> FALSE,
              login |-> [l EXCEPT !.errors = [username |-> usernameError,
                                             lobbyCode |-> ""]]]
        ELSE [join |-> TRUE,
              login |-> [l EXCEPT !.errors = NoErrors, !.isLoading = TRUE],
              username |-> Trim(l.username),
              lobbyCode |-> <<>>]

\* ------------------------------------------------------------ connection
NoJoin == [active |-> FALSE]
NoOrphans == [connecting |-> 0, open |-> 0, closing |-> 0]
Live == {"connecting", "open", "closing"}

\* connect(): this.ws = new WebSocket(url); the socket this.ws referred to
\* keeps its event handlers
connect(sock, orph) ==
    [ws |-> "connecting",
     orphans |-> IF sock \in Live THEN [orph EXCEPT ![sock] = @ + 1] ELSE orph]

\* attemptReconnect as it would be without its limit
attemptReconnectNoLimit(attempts, pending, timerLive) ==
    [reconnectAttempts |-> attempts + 1, timers |-> pending + 1,
     reconnectTimer |-> TRUE, scheduled |-> 1]

\* attemptReconnect(): the counter, the pending timers, and how many timers
\* it set
attemptReconnect(attempts, pending, timerLive) ==
    IF attempts >= maxReconnectAttempts
    THEN [reconnectAttempts |-> attempts, timers |-> pending,
          reconnectTimer |-> timerLive, scheduled |-> 0]
    ELSE [reconnectAttempts |-> attempts + 1, timers |-> pending + 1,
          reconnectTimer |-> TRUE, scheduled |-> 1]

\* disconnect(): clearTimeout(this.reconnectTimer), ws.close(), ws = null,
\* isConnected = false, messageHandlers.clear()
disconnect(sock, orph, pending, timerLive) ==
    [timers |-> IF timerLive THEN pending - 1 ELSE pending,
     reconnectTimer |-> FALSE,
     ws |-> "null",
     orphans |-> IF sock \in {"connecting", "open"}
                 THEN [orph EXCEPT !.closing = @ + 1]
                 ELSE orph,
     isConnected |-> FALSE,
     messageHandlers |-> <<>>]

\* ------------------------------------------------------------ handleJoinClick
ConnectionError(a, onClose, message) ==
    [a EXCEPT !.error = [id |-> NewErrorId(a.error),
                         code |-> JStr("CONNECTION_ERROR"),
                         message |-> JStr(message),
                         onClose |-> onClose]]

\* ... as it would be if it always asked to join
JoinSendAlwaysJoin(inputUsername, lobbyCode, a, connected, sock) ==
    LET a1 == [a EXCEPT !.gameData.lobbyCode = JCode(lobbyCode)]
        r == requestJoin(JText(inputUsername), JCode(lobbyCode), connected, sock)
    IN  [wire |-> r.wire,
         app |-> IF r.ok THEN a1
                 ELSE ConnectionError(a1, NoOnClose, "Failed to send join request")]

\* the part of handleJoinClick after the connection is there: the request it
\* sends and the App state it leaves
JoinSend(inputUsername, lobbyCode, a, connected, sock) ==
    IF lobbyCode = <<>>
    THEN LET r == createGame(JText(inputUsername), connected, sock)
         IN  [wire |-> r.wire,
              app |-> IF r.ok THEN a
                      ELSE ConnectionError(a, NoOnClose, "Failed to create game")]
    ELSE LET a1 == [a EXCEPT !.gameData.lobbyCode = JCode(lobbyCode)]
             r == requestJoin(JText(inputUsername), JCode(lobbyCode), connected, sock)
         IN  [wire |-> r.wire,
              app |-> IF r.ok THEN a1
                      ELSE ConnectionError(a1, NoOnClose, "Failed to send join request")]

\* the catch of handleJoinClick
JoinCatch(a) ==
    ConnectionError(a, [kind |-> "reset", scene |-> "-"], "Failed to connect to server")

\* ------------------------------------------------------------ steps
\* setState on an unmounted component changes nothing
Set(a) == IF mounted THEN a ELSE app

\* the render that follows a step: App's and ErrorPopup's effects, and
\* LoginScreen leaving the tree with the login scene
Commit(a, handlers, l, pending) ==
    /\ app' = a
    /\ messageHandlers' = IF mounted THEN HandlersEffect(handlers, app, a) ELSE handlers
    /\ errorTimers' = IF mounted THEN ErrorPopupEffect(pending, app, a) ELSE pending
    /\ login' = IF a.currentScene = "login" THEN l ELSE LoginInit

Observed(calls, exc, wire) ==
    /\ invoked' = calls
    /\ escaped' = exc
    /\ sent' = wire

\* ... of a step that is neither a theme step nor a direct call of send
Observe(calls, exc, wire) ==
    /\ Observed(calls, exc, wire)
    /\ returned' = "none"
    /\ UNCHANGED <<themeVars, frameVars>>

FormEnabled == mounted /\ app.currentScene = "login" /\ ~login.isLoading

\* the user edits the username field
UsernameChange(value) ==
    /\ FormEnabled
    /\ login' = handleUsernameChange(login, value)
    /\ Observe(<<>>, FALSE, <<>>)
    /\ UNCHANGED <<svcVars, app, mounted, exposed, joinWait, errorTimers,
                   scheduledSinceOpen, dropped, lostOnce>>

\* the user edits the lobby-code field, which then holds `raw`
LobbyCodeChange(raw) ==
    /\ FormEnabled
    /\ login' = handleLobbyCodeChange(login, raw)
    /\ Observe(<<>>, FALSE, <<>>)
    /\ UNCHANGED <<svcVars, app, mounted, exposed, joinWait, errorTimers,
                   scheduledSinceOpen, dropped, lostOnce>>

\* handleJoinClick(inputUsername, lobbyCode), called by the form `l` leaves
handleJoinClick(l, inputUsername, lobbyCode) ==
    LET a1 == [app EXCEPT !.username = inputUsername] IN
    IF ~isConnected
    THEN LET c == connect(ws, orphans) IN
         /\ ws' = c.ws
         /\ orphans' = c.orphans
         /\ joinWait' = [active |-> TRUE, username |-> inputUsername,
                         lobbyCode |-> lobbyCode]
         /\ Commit(a1, messageHandlers, l, errorTimers)
         /\ Observe(<<>>, FALSE, <<>>)
         /\ UNCHANGED <<isConnected, reconnectAttempts, timers, reconnectTimer,
                        mounted, exposed, scheduledSinceOpen, dropped, lostOnce>>
    ELSE LET r == JoinSend(inputUsername, lobbyCode, a1, isConnected, ws) IN
         /\ exposed' = TRUE
         /\ Commit(r.app, messageHandlers, l, errorTimers)
         /\ Observe(<<>>, FALSE, r.wire)
         /\ UNCHANGED <<ws, orphans, isConnected, reconnectAttempts, timers,
                        reconnectTimer, mounted, joinWait, scheduledSinceOpen, dropped, lostOnce>>

\* the user submits the join form
Submit ==
    /\ FormEnabled
    /\ LET r == handleSubmit(login) IN
       IF r.join
       THEN handleJoinClick(r.login, r.username, r.lobbyCode)
       ELSE /\ login' = r.login
            /\ Observe(<<>>, FALSE, <<>>)
            /\ UNCHANGED <<svcVars, app, mounted, exposed, joinWait, errorTimers,
                           scheduledSinceOpen, dropped, lostOnce>>

\* the user clicks Create New Lobby
CreateLobby ==
    /\ FormEnabled
    /\ LET r == handleCreateLobby(login) IN
       IF r.join
       THEN handleJoinClick(r.login, r.username, r.lobbyCode)
       ELSE /\ login' = r.login
            /\ Observe(<<>>, FALSE, <<>>)
            /\ UNCHANGED <<svcVars, app, mounted, exposed, joinWait, errorTimers,
                           scheduledSinceOpen, dropped, lostOnce>>

\* ws.onopen as it would be without the reset of the counter
onopenKeepCount(attempts) == [isConnected |-> TRUE, reconnectAttempts |-> attempts]

\* ws.onopen: isConnected = true, reconnectAttempts = 0
onopen(attempts) == [isConnected |-> TRUE, reconnectAttempts |-> 0]

\* the socket of this.ws opens: onopen, and the handleJoinClick call that
\* awaited this connect() goes on
WsOpen ==
    /\ ws = "connecting"
    /\ ws' = "open"
    /\ isConnected' = onopen(reconnectAttempts).isConnected
    /\ reconnectAttempts' = onopen(reconnectAttempts).reconnectAttempts
    /\ scheduledSinceOpen' = 0
    /\ IF joinWait.active
       THEN LET r == JoinSend(joinWait.username, joinWait.lobbyCode, app, TRUE, "open") IN
            /\ exposed' = TRUE
            /\ Commit(Set(r.app), messageHandlers, login, errorTimers)
            /\ Observe(<<>>, FALSE, r.wire)
       ELSE /\ Observe(<<>>, FALSE, <<>>)
            /\ UNCHANGED <<messageHandlers, app, login, exposed, errorTimers>>
    /\ joinWait' = NoJoin
    /\ UNCHANGED <<orphans, timers, reconnectTimer, mounted, dropped, lostOnce>>

\* ws.onclose: isConnected = false, then attemptReconnect()
OnClose ==
    LET r == attemptReconnect(reconnectAttempts, timers, reconnectTimer) IN
    /\ isConnected' = FALSE
    /\ reconnectAttempts' = r.reconnectAttempts
    /\ timers' = r.timers
    /\ reconnectTimer' = r.reconnectTimer
    /\ scheduledSinceOpen' = scheduledSinceOpen + r.scheduled

\* ws.onerror rejects the promise of connect(): the catch of the
\* handleJoinClick call that awaits it runs
OnError ==
    /\ IF joinWait.active
       THEN Commit(Set(JoinCatch(app)), messageHandlers, login, errorTimers)
       ELSE UNCHANGED <<messageHandlers, app, login, errorTimers>>
    /\ joinWait' = NoJoin

\* the connection attempt of this.ws fails: error, then close
WsFail ==
    /\ ws = "connecting"
    /\ ws' = "closed"
    /\ OnError
    /\ OnClose
    /\ Observe(<<>>, FALSE, <<>>)
    /\ UNCHANGED <<orphans, mounted, exposed, dropped, lostOnce>>

\* the server starts the closing handshake: readyState becomes CLOSING
\* before the close event is fired
WsClosing ==
    /\ ws = "open"
    /\ ws' = "closing"
    /\ Observe(<<>>, FALSE, <<>>)
    /\ UNCHANGED <<orphans, messageHandlers, isConnected, reconnectAttempts, timers,
                   reconnectTimer, uiVars, scheduledSinceOpen, dropped, lostOnce>>

\* the open connection of this.ws is lost or closed by the server
WsClose ==
    /\ ws \in {"open", "closing"}
    /\ ws' = "closed"
    /\ OnClose
    /\ lostOnce' = TRUE
    /\ Observe(<<>>, FALSE, <<>>)
    /\ UNCHANGED <<orphans, messageHandlers, mounted, exposed, dropped, app, login,
                   joinWait, errorTimers>>

\* a socket the service no longer refers to closes; a socket closed while
\* connecting fires error first
OrphanClose ==
    /\ \E st \in Live :
          /\ orphans[st] > 0
          /\ orphans' = [orphans EXCEPT ![st] = @ - 1]
    /\ OnError
    /\ OnClose
    /\ Observe(<<>>, FALSE, <<>>)
    /\ UNCHANGED <<ws, mounted, exposed, dropped, lostOnce>>

\* sockets the service created that are connecting or open
LiveSockets ==
    (IF ws \in {"connecting", "open"} THEN 1 ELSE 0)
        + orphans.connecting + orphans.open

\* a caller that finds isConnected false calls connect(), as handleJoinClick
\* does, and does not wait for the outcome
ExtConnect ==
    /\ ~isConnected
    /\ LiveSockets + (IF ws = "closing" THEN 1 ELSE 0) + orphans.closing + timers
          < MaxSockets
    /\ LET c == connect(ws, orphans) IN
       /\ ws' = c.ws
       /\ orphans' = c.orphans
    /\ Observe(<<>>, FALSE, <<>>)
    /\ UNCHANGED <<messageHandlers, isConnected, reconnectAttempts, timers,
                   reconnectTimer, uiVars, scheduledSinceOpen, dropped, lostOnce>>

\* a connecting socket the service no longer refers to opens: its onopen
OrphanOpen ==
    /\ orphans.connecting > 0
    /\ orphans' = [orphans EXCEPT !.connecting = @ - 1, !.open = @ + 1]
    /\ isConnected' = onopen(reconnectAttempts).isConnected
    /\ reconnectAttempts' = onopen(reconnectAttempts).reconnectAttempts
    /\ scheduledSinceOpen' = 0
    /\ Observe(<<>>, FALSE, <<>>)
    /\ UNCHANGED <<ws, messageHandlers, timers, reconnectTimer, uiVars, dropped,
                   lostOnce>>

\* a caller calls wsService.send(type, data)
ExtSend(type, data) ==
    /\ LET r == send(type, data, isConnected, ws) IN
       /\ returned' = IF r.ok THEN "true" ELSE "false"
       /\ Observed(<<>>, r.threw, r.wire)
    /\ UNCHANGED <<svcVars, uiVars, themeVars, frameVars, scheduledSinceOpen, dropped,
                   lostOnce>>

\* a reconnect timer fires: this.connect().catch(log)
TimerFire ==
    /\ timers > 0
    /\ timers' = timers - 1
    /\ reconnectTimer' = IF timers = 1 THEN FALSE ELSE reconnectTimer
    /\ LET c == connect(ws, orphans) IN
       /\ ws' = c.ws
       /\ orphans' = c.orphans
    /\ Observe(<<>>, FALSE, <<>>)
    /\ UNCHANGED <<messageHandlers, isConnected, reconnectAttempts, uiVars,
                   scheduledSinceOpen, dropped, lostOnce>>

\* ws.onmessage with a text frame
WsMessage(data) ==
    /\ ws = "open"
    /\ LET r == handleMessage(data, messageHandlers, app) IN
       /\ Commit(Set(r.app), messageHandlers, login, errorTimers)
       /\ Observe(r.calls, r.escaped, <<>>)
       /\ dropped' = (dropped \/ r.calls = <<>>)
    /\ UNCHANGED <<ws, orphans, isConnected, reconnectAttempts, timers, reconnectTimer,
                   mounted, exposed, joinWait, scheduledSinceOpen, lostOnce>>

\* onmessage, with a text frame, of an open socket the service no longer
\* refers to
OrphanMessage(data) ==
    /\ orphans.open > 0
    /\ LET r == handleMessage(data, messageHandlers, app) IN
       /\ Commit(Set(r.app), messageHandlers, login, errorTimers)
       /\ Observe(r.calls, r.escaped, <<>>)
       /\ dropped' = (dropped \/ r.calls = <<>>)
    /\ UNCHANGED <<ws, orphans, isConnected, reconnectAttempts, timers, reconnectTimer,
                   mounted, exposed, joinWait, scheduledSinceOpen, lostOnce>>

\* this.handleMessage(text) for the frame that arrived as number `seq`
Dispatch(seq, data) ==
    LET r == handleMessage(data, messageHandlers, app) IN
    /\ Commit(Set(r.app), messageHandlers, login, errorTimers)
    /\ Observed(r.calls, r.escaped, <<>>)
    /\ dropped' = (dropped \/ r.calls = <<>>)
    /\ dispatchLog' = IF r.calls = <<>> THEN dispatchLog ELSE Append(dispatchLog, seq)
    /\ returned' = "none"
    /\ UNCHANGED <<ws, orphans, isConnected, reconnectAttempts, timers, reconnectTimer,
                   mounted, exposed, joinWait, scheduledSinceOpen, lostOnce, themeVars>>

\* ws.onmessage with a frame that is a string, or an ArrayBuffer, which is
\* decoded on the spot: handleMessage runs inside the event handler
SyncFrame(kind, data) ==
    /\ ws = "open"
    /\ arrived < MaxFrames
    /\ arrived' = arrived + 1
    /\ reads' = reads
    /\ Dispatch(arrived + 1, data)

\* ws.onmessage with a Blob: event.data.text() is started and the handler
\* returns
BlobFrame(data) ==
    /\ ws = "open"
    /\ arrived < MaxFrames
    /\ arrived' = arrived + 1
    /\ reads' = reads \cup {[seq |-> arrived + 1, data |-> data]}
    /\ Observed(<<>>, FALSE, <<>>)
    /\ UNCHANGED <<svcVars, uiVars, themeVars, dispatchLog, returned,
                   scheduledSinceOpen, dropped, lostOnce>>

\* the promise of a pending text() is fulfilled, whichever read finishes
\* first: handleMessage(text)
BlobRead ==
    \E r \in reads :
        /\ reads' = reads \ {r}
        /\ arrived' = arrived
        /\ Dispatch(r.seq, r.data)

\* the promise of a pending text() is rejected: the error is logged
BlobReadFails ==
    /\ \E r \in reads : reads' = reads \ {r}
    /\ arrived' = arrived
    /\ Observed(<<>>, FALSE, <<>>)
    /\ UNCHANGED <<svcVars, uiVars, themeVars, dispatchLog, returned,
                   scheduledSinceOpen, dropped, lostOnce>>

\* App unmounts: the cleanup of the handler effect, then wsService.disconnect()
Unmount ==
    /\ mounted
    /\ mounted' = FALSE
    /\ LET d == disconnect(ws, orphans, timers, reconnectTimer) IN
       /\ ws' = d.ws
       /\ orphans' = d.orphans
       /\ timers' = d.timers
       /\ reconnectTimer' = d.reconnectTimer
       /\ isConnected' = d.isConnected
       /\ messageHandlers' = d.messageHandlers
    /\ errorTimers' = {}
    /\ Observe(<<>>, FALSE, <<>>)
    /\ UNCHANGED <<reconnectAttempts, app, login, exposed, joinWait,
                   scheduledSinceOpen, dropped, lostOnce>>

\* a click in GameBoard goes through window.wsService?.
GameEnabled == mounted /\ app.currentScene = "game"

GameClick(r) ==
    /\ Observe(<<>>, FALSE, IF exposed THEN r.wire ELSE <<>>)
    /\ UNCHANGED <<svcVars, uiVars, scheduledSinceOpen, dropped, lostOnce>>

\* Roll Dice
RollClick ==
    /\ GameEnabled
    /\ GameClick(requestRoll(isConnected, ws))

\* End Turn: finishTurn(window.currentUsername)
FinishClick ==
    /\ GameEnabled
    /\ GameClick(finishTurn(JText(app.username), isConnected, ws))

\* Start Game, shown to the host before the first turn
StartClick ==
    /\ GameEnabled
    /\ app.isHost /\ ~Truthy(app.gameData.currentTurn)
    /\ GameClick(startGame(isConnected, ws))

\* End Game, shown to the host once a turn is on: the service has no endGame,
\* so the call throws a TypeError out of the click handler
EndGameClick ==
    /\ GameEnabled
    /\ app.isHost /\ Truthy(app.gameData.currentTurn)
    /\ Observe(<<>>, exposed, <<>>)
    /\ UNCHANGED <<svcVars, uiVars, scheduledSinceOpen, dropped, lostOnce>>

\* ChoiceModal onSelect: wsService.sendChoice(label), setChoicePrompt(null)
ChoiceSelect ==
    /\ mounted /\ app.choicePrompt.open
    /\ \E i \in DOMAIN app.choicePrompt.options.v :
          LET label == Get(app.choicePrompt.options.v[i], "label")
              r == sendChoice(label, isConnected, ws)
          IN  /\ Commit([app EXCEPT !.choicePrompt = NoPrompt], messageHandlers,
                        login, errorTimers)
              /\ Observe(<<>>, FALSE, r.wire)
    /\ UNCHANGED <<ws, orphans, isConnected, reconnectAttempts, timers, reconnectTimer,
                   mounted, exposed, joinWait, scheduledSinceOpen, dropped, lostOnce>>

\* ChoiceModal onCancel
ChoiceCancel ==
    /\ mounted /\ app.choicePrompt.open
    /\ Commit([app EXCEPT !.choicePrompt = NoPrompt], messageHandlers, login, errorTimers)
    /\ Observe(<<>>, FALSE, <<>>)
    /\ UNCHANGED <<ws, orphans, isConnected, reconnectAttempts, timers, reconnectTimer,
                   mounted, exposed, joinWait, scheduledSinceOpen, dropped, lostOnce>>

\* the user closes the error popup
DismissError ==
    /\ mounted /\ app.error # NoError
    /\ Commit(handleCloseError(app), messageHandlers, login, errorTimers)
    /\ Observe(<<>>, FALSE, <<>>)
    /\ UNCHANGED <<ws, orphans, isConnected, reconnectAttempts, timers, reconnectTimer,
                   mounted, exposed, joinWait, scheduledSinceOpen, dropped, lostOnce>>

\* the auto-close timer ErrorPopup set for the error `id` fires: onClose()
ErrorTimerFires(id) ==
    /\ id \in errorTimers
    /\ Commit(handleCloseError(app), messageHandlers, login, errorTimers \ {id})
    /\ Observe(<<>>, FALSE, <<>>)
    /\ UNCHANGED <<ws, orphans, isConnected, reconnectAttempts, timers, reconnectTimer,
                   mounted, exposed, joinWait, scheduledSinceOpen, dropped, lostOnce>>

ErrorIds == {1, 2}
ErrorTimerFire == \E id \in ErrorIds : ErrorTimerFires(id)

\* the first render of App with `store` in localStorage: useState(getStoredTheme())
\* and the effect applyTheme(theme)
ThemeMount(store) ==
    LET t == getStoredTheme(store)
        r == applyTheme(t, store, NoTheme)
    IN  /\ theme = t
        /\ localStorage = r.localStorage
        /\ rootTheme = r.rootTheme
        /\ themeLog = <<[op |-> "load", stored |-> store, theme |-> t]>>

\* the user clicks the theme button: setTheme(newTheme), applyTheme(newTheme),
\* then the effect applyTheme(theme) of the render
ToggleTheme ==
    /\ mounted
    /\ Len(themeLog) <= MaxThemeSteps
    /\ LET newTheme == toggleTheme(theme)
           r1 == applyTheme(newTheme, localStorage, rootTheme)
           r2 == applyTheme(newTheme, r1.localStorage, r1.rootTheme)
       IN  /\ theme' = newTheme
           /\ localStorage' = r2.localStorage
           /\ rootTheme' = r2.rootTheme
           /\ themeLog' = Append(themeLog, [op |-> "toggle", stored |-> localStorage,
                                            theme |-> newTheme])
    /\ Observed(<<>>, FALSE, <<>>)
    /\ UNCHANGED <<svcVars, uiVars, scheduledSinceOpen, dropped, lostOnce, returned,
                   frameVars>>

\* the page is loaded again before anything else was done: App renders for
\* the first time with what localStorage holds
Reload ==
    /\ Len(themeLog) <= MaxThemeSteps
    /\ LET t == getStoredTheme(localStorage)
           r == applyTheme(t, localStorage, NoTheme)
       IN  /\ theme' = t
           /\ localStorage' = r.localStorage
           /\ rootTheme' = r.rootTheme
           /\ themeLog' = Append(themeLog, [op |-> "load", stored |-> localStorage,
                                            theme |-> t])
    /\ Observed(<<>>, FALSE, <<>>)
    /\ UNCHANGED <<svcVars, uiVars, scheduledSinceOpen, dropped, lostOnce, returned,
                   frameVars>>

\* another component registers a handler for its own message type
ExtOn(handler) ==
    /\ LET r == on(messageHandlers, "EXT", handler) IN
       /\ messageHandlers' = r.map
       /\ Observe(<<>>, r.threw, <<>>)
    /\ UNCHANGED <<ws, orphans, isConnected, reconnectAttempts, timers, reconnectTimer,
                   uiVars, scheduledSinceOpen, dropped, lostOnce>>

\* ... and removes it
ExtOff ==
    /\ messageHandlers' = off(messageHandlers, "EXT")
    /\ Observe(<<>>, FALSE, <<>>)
    /\ UNCHANGED <<ws, orphans, isConnected, reconnectAttempts, timers, reconnectTimer,
                   uiVars, scheduledSinceOpen, dropped, lostOnce>>

\* ------------------------------------------------------------ inputs
\* the username and the lobby codes typed in the whole-program runs
SomeNames == {S(0, 2, 0)}
SomeCodes == {<<>>, <<"A", "A", "A", "a", "A", "A">>}

\* the values one edit of the lobby-code field can leave in it: a character
\* typed at the end, or the last one deleted
Edits(code) ==
    {Append(code, c) : c \in Chars}
        \cup (IF code = <<>> THEN {} ELSE {SubSeq(code, 1, Len(code) - 1)})

\* every username up to the bounds
AllNames ==
    {S(l, c, t) : l \in 0..MaxPad, c \in 0..MaxCore, t \in 0..MaxPad}
        \ {S(l, 0, t) : l \in 0..MaxPad, t \in 1..MaxPad}

ExtHandlers == {H("ext1", "-", EmptyS), H("ext2", "-", EmptyS)}

\* message types the server sends: those App handles, the other component's,
\* and one nobody handles
ServerTypes == {"ERROR", "NEW_GAME", "JOIN_GAME", "NEXT_TURN", "CHOICE", "EXT", "UNKNOWN"}

\* the types that are also sent without a data field and with data: null
FalsyTypes == {"ERROR", "EXT", "UNKNOWN"}

\* a well-formed payload of each type
Payload(type) ==
    CASE type = "ERROR" -> {JObj([code |-> JStr("LOBBY_NOT_FOUND"), message |-> JStr("m")])}
      [] type = "NEW_GAME" -> {JObj([lobbyCode |-> JStr("ABCDEF")])}
      [] type = "JOIN_GAME" -> {JObj([players |-> JArr(<<JObj([username |-> JStr("p")])>>)]),
                                JObj([players |-> JArr(<<JNull>>)])}
      [] type = "NEXT_TURN" -> {JObj([player |-> JStr("p")])}
      [] type = "CHOICE" -> {JObj([OPTIONS |-> JArr(<<JObj([label |-> JStr("buy")]),
                                                     JObj([description |-> JStr("d")])>>)])}
      [] OTHER -> {EmptyObj}

\* {"type": T, "data": d}; Undef stands for a message without a data field
Message(type, data) ==
    Json(JObj(IF data = Undef THEN [type |-> JStr(type)]
              ELSE [type |-> JStr(type), data |-> data]))

\* the texts the server sends
Frames ==
    {Garbage, Json(JNull), Json(JNum(5)), Json(JObj([data |-> EmptyObj]))}
        \cup {Message(type, data) : type \in FalsyTypes, data \in {Undef, JNull}}
        \cup UNION {{Message(type, data) : data \in Payload(type)} : type \in ServerTypes}

\* ------------------------------------------------------------ specification
AppInit == [currentScene |-> "login", error |-> NoError, username |-> EmptyS,
            isHost |-> FALSE,
            gameData |-> [lobbyCode |-> Undef, currentTurn |-> JNull],
            choicePrompt |-> NoPrompt]

ProgramInit ==
    /\ ws = "null"
    /\ orphans = NoOrphans
    /\ messageHandlers = RegisterHandlers(<<>>, AppInit)
    /\ isConnected = FALSE
    /\ reconnectAttempts = 0
    /\ timers = 0
    /\ reconnectTimer = FALSE
    /\ app = AppInit
    /\ login = LoginInit
    /\ mounted = TRUE
    /\ exposed = FALSE
    /\ joinWait = NoJoin
    /\ errorTimers = {}
    /\ invoked = <<>>
    /\ escaped = FALSE
    /\ sent = <<>>
    /\ scheduledSinceOpen = 0
    /\ dropped = FALSE
    /\ lostOnce = FALSE
    /\ returned = "none"
    /\ arrived = 0
    /\ reads = {}
    /\ dispatchLog = <<>>

\* a first visit: localStorage holds no theme
Init == ProgramInit /\ ThemeMount(NoItem)

Next ==
    \/ \E value \in SomeNames : UsernameChange(value)
    \/ \E raw \in SomeCodes : LobbyCodeChange(raw)
    \/ Submit
    \/ CreateLobby
    \/ WsOpen
    \/ WsFail
    \/ WsClose
    \/ OrphanClose
    \/ TimerFire
    \/ \E data \in Frames : WsMessage(data)
    \/ Unmount
    \/ RollClick
    \/ FinishClick
    \/ StartClick
    \/ EndGameClick
    \/ ChoiceSelect
    \/ ChoiceCancel
    \/ DismissError
    \/ ErrorTimerFire
    \/ \E handler \in ExtHandlers \cup {NotAFunction} : ExtOn(handler)
    \/ ExtOff

Spec == Init /\ [][Next]_vars

\* the login form with every username up to the bounds, up to the request
UserNext ==
    \/ \E value \in AllNames : UsernameChange(value)
    \/ \E raw \in SomeCodes : LobbyCodeChange(raw)
    \/ Submit
    \/ CreateLobby
    \/ WsOpen
    \/ WsFail
    \/ DismissError
    \/ ErrorTimerFire

SpecUser == Init /\ [][UserNext]_vars

\* the login form with the lobby code typed and deleted key by key, up to the
\* request
CodeNext ==
    \/ \E value \in SomeNames : UsernameChange(value)
    \/ \E raw \in Edits(login.lobbyCode) \cup SomeCodes : LobbyCodeChange(raw)
    \/ Submit
    \/ CreateLobby
    \/ WsOpen
    \/ WsFail
    \/ DismissError
    \/ ErrorTimerFire

SpecCode == Init /\ [][CodeNext]_vars

\* what localStorage can hold when the page is loaded: nothing, what
\* applyTheme stored on an earlier visit, or what something else stored
StoredThemes == {NoItem, "dark", "light", "other"}

\* the theme button and page loads, from every stored preference
ThemeInit == ProgramInit /\ \E store \in StoredThemes : ThemeMount(store)
ThemeNext == ToggleTheme \/ Reload
SpecTheme == ThemeInit /\ [][ThemeNext]_vars

\* the service with callers of connect() besides the reconnect timer
ConnNext ==
    \/ ExtConnect
    \/ WsOpen
    \/ WsFail
    \/ WsClose
    \/ OrphanOpen
    \/ OrphanClose
    \/ TimerFire
    \/ \E data \in Frames : WsMessage(data)
    \/ \E data \in Frames : OrphanMessage(data)

SpecConn == Init /\ [][ConnNext]_vars

\* what callers pass to send
SendTypes == {"REQUEST_ROLL", "CHOICE_RESPONSE"}
SendData == {EmptyObj, JObj([label |-> JStr("buy")]), JObj([label |-> Undef])}

\* the service with callers of connect() and of send(), in every state of
\* the socket
SendNext ==
    \/ ExtConnect
    \/ WsOpen
    \/ WsFail
    \/ WsClosing
    \/ WsClose
    \/ OrphanOpen
    \/ OrphanClose
    \/ TimerFire
    \/ \E type \in SendTypes, data \in SendData : ExtSend(type, data)

SpecSend == Init /\ [][SendNext]_vars

\* the frames of the frame-kind runs: two messages with a handler, and one
\* text that is not JSON
SomeFrames ==
    {Message("ERROR", JObj([code |-> JStr("LOBBY_NOT_FOUND"), message |-> JStr("m")])),
     Message("NEXT_TURN", JObj([player |-> JStr("p")])),
     Garbage}

\* a join, then frames of every kind on the open socket
FrameNext ==
    \/ \E value \in SomeNames : UsernameChange(value)
    \/ CreateLobby
    \/ WsOpen
    \/ \E kind \in {"string", "ArrayBuffer"}, data \in SomeFrames : SyncFrame(kind, data)
    \/ \E data \in SomeFrames : BlobFrame(data)
    \/ BlobRead
    \/ BlobReadFails

SpecFrames == Init /\ [][FrameNext]_vars

\* timers fire, and a socket that is connecting or closing gets its event
Fairness ==
    /\ WF_vars(TimerFire)
    /\ WF_vars(WsOpen \/ WsFail)
    /\ WF_vars(OrphanClose)
    /\ \A id \in ErrorIds : WF_vars(ErrorTimerFires(id))

FairSpec == Spec /\ Fairness

\* ------------------------------------------------------------ properties
\* what an inbound text is, read off the text itself
ParsesWithType(data) ==
    /\ data.wf
    /\ data.v.t = "object"
    /\ "type" \in DOMAIN data.v.f
TypeOf(data) == data.v.f["type"].v
DataField(data) == IF "data" \in DOMAIN data.v.f THEN data.v.f["data"] ELSE Undef
RegisteredType(data, handlers) ==
    ParsesWithType(data) /\ TypeOf(data) \in DOMAIN handlers

\* C1 as stated: a message that parses as JSON with a registered type T makes
\* handleMessage invoke the handler registered for T, once, with the value of
\* the message's data field, and no other handler.
C1_DispatchWithDataField ==
    [][\A data \in Frames :
          (RegisteredType(data, messageHandlers) /\ WsMessage(data))
              => invoked' = <<[h |-> messageHandlers[TypeOf(data)],
                               arg |-> DataField(data)]>>]_vars

\* C1 amended: the handler registered for T is invoked exactly once and no
\* other handler is; its argument is the message's data field when that is
\* truthy, and the whole parsed message when the data field is missing or falsy.
C1_Dispatch ==
    [][\A data \in Frames :
          (RegisteredType(data, messageHandlers) /\ WsMessage(data))
              => invoked' = <<[h |-> messageHandlers[TypeOf(data)],
                               arg |-> IF Truthy(DataField(data))
                                       THEN DataField(data) ELSE data.v]>>]_vars

\* a handler has just been invoked with the whole message
C1_Witness ==
    /\ Len(invoked) = 1
    /\ invoked[1].h.fn = "handleError"
    /\ invoked[1].arg = JObj([type |-> JStr("ERROR"), data |-> JNull])

\* C2: a message that is not valid JSON, or whose type has no registered
\* handler, is dropped: no handler is invoked, the service fields and the App
\* state stay as they are, no exception leaves handleMessage; and a message
\* with a registered type that arrives after a drop is dispatched to its handler.
C2_Dropped ==
    [][\A data \in Frames :
          /\ (~RegisteredType(data, messageHandlers) /\ WsMessage(data))
                => /\ invoked' = <<>>
                   /\ ~escaped'
                   /\ UNCHANGED <<ws, isConnected, reconnectAttempts, messageHandlers>>
                   /\ UNCHANGED uiVars
          /\ (dropped /\ RegisteredType(data, messageHandlers) /\ WsMessage(data))
                => /\ Len(invoked') = 1
                   /\ invoked'[1].h = messageHandlers[TypeOf(data)]
                   /\ ~escaped']_vars

\* a handler has been invoked after an earlier message was dropped
C2_Witness == dropped /\ Len(invoked) = 1 /\ ~escaped

\* C3: the retry counter stays within 0..maxReconnectAttempts and no more
\* than maxReconnectAttempts reconnect attempts are scheduled without an
\* onopen in between; once the last of them has failed, no timer is set and
\* the service stays disconnected unless connect() is called explicitly.
Exhausted ==
    /\ ~isConnected
    /\ reconnectAttempts = maxReconnectAttempts
    /\ timers = 0
    /\ ws # "connecting"
ExplicitConnect == ~joinWait.active /\ joinWait'.active
C3_RetryBudget ==
    /\ [](/\ reconnectAttempts \in 0..maxReconnectAttempts
          /\ scheduledSinceOpen \in 0..maxReconnectAttempts)
    /\ [][Exhausted => (ExplicitConnect \/ (Exhausted' /\ ws' # "open"))]_vars

\* the whole budget has been spent after a lost connection
C3_Witness == Exhausted /\ lostOnce /\ ws = "closed" /\ scheduledSinceOpen = maxReconnectAttempts

\* C5: while App is mounted the scene is 'login' or 'game' and exactly the
\* view of that scene is rendered; it starts as 'login', becomes 'game' only in
\* a step that handles a NEW_GAME or JOIN_GAME message, and never changes back.
C5_Scene ==
    /\ app.currentScene = "login"
    /\ [](/\ app.currentScene \in {"login", "game"}
          /\ mounted => Rendered(app) = (IF app.currentScene = "login"
                                         THEN {"LoginScreen"} ELSE {"GameBoard"}))
    /\ [][app'.currentScene # app.currentScene
            => /\ app.currentScene = "login"
               /\ app'.currentScene = "game"
               /\ \E data \in Frames :
                     /\ ParsesWithType(data)
                     /\ TypeOf(data) \in {"NEW_GAME", "JOIN_GAME"}
                     /\ WsMessage(data)
                     /\ Len(invoked') = 1]_vars

\* the game scene is shown after an error was shown in it
C5_Witness ==
    /\ mounted
    /\ app.currentScene = "game"
    /\ app.error # NoError
    /\ app.error.onClose.scene = "game"

\* C9: every text handed to the socket is the JSON of an object with exactly
\* the fields type and data, type one of the six request types and data an
\* object, the empty one for GAME_START and REQUEST_ROLL.
RequestTypes == {"REQUEST_JOIN", "GAME_CREATE", "GAME_START", "FINISH_TURN",
                 "REQUEST_ROLL", "CHOICE_RESPONSE"}
WellFormedRequest(text) ==
    /\ text.wf
    /\ text.v.t = "object"
    /\ DOMAIN text.v.f = {"type", "data"}
    /\ text.v.f["type"].t = "string"
    /\ text.v.f["type"].v \in RequestTypes
    /\ text.v.f["data"].t = "object"
    /\ text.v.f["type"].v \in {"GAME_START", "REQUEST_ROLL"} => text.v.f["data"] = EmptyObj
C9_Outbound == \A i \in DOMAIN sent : WellFormedRequest(sent[i])

\* a CHOICE_RESPONSE for an option without a label has gone out
C9_Witness ==
    /\ Len(sent) = 1
    /\ sent[1].v.f["type"].v = "CHOICE_RESPONSE"
    /\ sent[1].v.f["data"] = EmptyObj

\* C10: on(T, h) makes h the handler of T and off(T) leaves T without one,
\* neither changes the handler of another type; a handler changes only in a
\* step that calls on or off for its type or disconnect(); and a message of
\* type T goes to the handler the map holds for T, to no other, and to none
\* when the map holds none.
OthersKept(type) ==
    \A other \in ServerTypes \ {type} :
        /\ (other \in DOMAIN messageHandlers') = (other \in DOMAIN messageHandlers)
        /\ other \in DOMAIN messageHandlers => messageHandlers'[other] = messageHandlers[other]
Touches(type) ==
    \/ type = "EXT" /\ (ExtOff \/ \E handler \in ExtHandlers : ExtOn(handler))
    \/ mounted /\ ~mounted'
    \/ /\ type \in {AppTypes[i] : i \in DOMAIN AppTypes}
       /\ app'.currentScene # app.currentScene \/ app'.username # app.username
C10_HandlerMap ==
    [][/\ \A handler \in ExtHandlers :
             ExtOn(handler) => /\ "EXT" \in DOMAIN messageHandlers'
                               /\ messageHandlers'["EXT"] = handler
                               /\ OthersKept("EXT")
       /\ ExtOn(NotAFunction) => (escaped' /\ messageHandlers' = messageHandlers)
       /\ ExtOff => ("EXT" \notin DOMAIN messageHandlers' /\ OthersKept("EXT"))
       /\ \A type \in ServerTypes :
             (/\ type \in DOMAIN messageHandlers
              /\ \/ type \notin DOMAIN messageHandlers'
                 \/ messageHandlers'[type] # messageHandlers[type])
                => Touches(type)
       /\ \A data \in Frames :
             (ParsesWithType(data) /\ WsMessage(data))
                => IF TypeOf(data) \in DOMAIN messageHandlers
                   THEN Len(invoked') = 1 /\ invoked'[1].h = messageHandlers[TypeOf(data)]
                   ELSE invoked' = <<>>]_vars

\* the second handler registered for EXT has replaced the first and been invoked
C10_Witness ==
    /\ "EXT" \in DOMAIN messageHandlers
    /\ messageHandlers["EXT"].fn = "ext2"
    /\ Len(invoked) = 1
    /\ invoked[1].h.fn = "ext2"

\* C4: onopen leaves the service connected with the counter at 0, so the
\* counter is 0 whenever the service is connected and the next outage starts
\* from a full budget; and while App is mounted, an outage leads to a state
\* where the service is connected again with the counter at 0 or the budget
\* is spent.
Outage == mounted /\ lostOnce /\ ~isConnected
Reconnected == isConnected /\ reconnectAttempts = 0
C4_Reconnects ==
    /\ [](isConnected => reconnectAttempts = 0)
    /\ [][WsOpen => (Reconnected' /\ scheduledSinceOpen' = 0)]_vars
    /\ Outage ~> (Reconnected \/ Exhausted \/ ~mounted)

\* connected again, with the counter at 0, after an established connection was lost
C4_Witness ==
    /\ lostOnce
    /\ Reconnected
    /\ ws = "open"
    /\ scheduledSinceOpen = 0

\* C6: while App is mounted the only auto-close timer pending is the one of
\* the error on display; a timer that fires clears the error it was set for;
\* dismissing clears the error; and every error on display eventually leaves
\* the display, cleared or replaced by a newer one.
OwnTimer ==
    mounted => errorTimers = (IF app.error = NoError THEN {} ELSE {app.error.id})
UsernameInRange(name) ==
    StrLen(name) >= MinUsernameLen /\ StrLen(name) <= MaxUsernameLen
C7_UsernameLength ==
    /\ joinWait.active => UsernameInRange(joinWait.username)
    /\ \A i \in DOMAIN sent :
          sent[i].v.f["type"].v \in {"GAME_CREATE", "REQUEST_JOIN"}
              => UsernameInRange(sent[i].v.f["data"].f["username"].s)

\* C8: a REQUEST_JOIN text carries a lobby code of lobbyCodeLength letters
\* or digits, and a submit of the join form with any other code sets the
\* lobby-code error, leaves isLoading false, opens no connection and sends
\* nothing.
ValidCode(code) ==
    Len(code) = lobbyCodeLength /\ \A i \in DOMAIN code : IsAlnum(code[i])
C8_LobbyCode ==
    /\ [](\A i \in DOMAIN sent :
             sent[i].v.f["type"].v = "REQUEST_JOIN"
                => ValidCode(sent[i].v.f["data"].f["lobby"].c))
    /\ [](joinWait.active => (joinWait.lobbyCode = <<>> \/ ValidCode(joinWait.lobbyCode)))
    /\ [][(~ValidCode(login.lobbyCode) /\ Submit)
            => /\ login'.errors.lobbyCode # ""
               /\ ~login'.isLoading
               /\ sent' = <<>>
               /\ UNCHANGED <<ws, joinWait>>]_vars

\* a REQUEST_JOIN has gone out with the code typed in lower case
C8_Witness ==
    /\ Len(sent) = 1
    /\ sent[1].v.f["type"].v = "REQUEST_JOIN"
    /\ sent[1].v.f["data"].f["lobby"].c = <<"A", "A", "A", "A", "A", "A">>

\* C11: a step that applies dark or light leaves getStoredTheme() equal to it;
\* a page load with nothing stored shows dark, and one with dark or light
\* stored shows what is stored; a toggle turns dark into light and light into
\* dark, leaves the stored preference and the root equal to the theme on
\* display, and two toggles in a row give back the theme before them.
AfterTwoToggles(i) ==
    /\ themeLog[i].op = "toggle"
    /\ themeLog[i - 1].op = "toggle"
    /\ themeLog[i - 2].theme \in themes
C11_ThemeRoundTrip ==
    /\ [](theme \in themes
             => (getStoredTheme(localStorage) = theme /\ rootTheme = theme))
    /\ [](\A i \in DOMAIN themeLog :
             /\ (themeLog[i].op = "load" /\ themeLog[i].stored = NoItem)
                   => themeLog[i].theme = "dark"
             /\ (themeLog[i].op = "load" /\ themeLog[i].stored \in themes)
                   => themeLog[i].theme = themeLog[i].stored
             /\ (i > 2 /\ AfterTwoToggles(i)) => themeLog[i].theme = themeLog[i - 2].theme)
    /\ [][ToggleTheme => /\ theme = "dark" => theme' = "light"
                         /\ theme = "light" => theme' = "dark"
                         /\ theme' \in themes
                         /\ getStoredTheme(localStorage') = theme']_vars

\* light, toggled to on a first visit, is what a later page load shows, and
\* two toggles from there have given light back
C11_Witness ==
    /\ Len(themeLog) = 5
    /\ themeLog[1].stored = NoItem
    /\ themeLog[2].op = "toggle"
    /\ themeLog[3].op = "load" /\ themeLog[3].theme = "light"
    /\ themeLog[4].op = "toggle"
    /\ themeLog[5].op = "toggle" /\ theme = "light" /\ localStorage = "light"

\* C12: closing an error popup that was raised on the login scene, by the
\* close button or by the auto-close timer, leaves LoginScreen's isLoading
\* false.
RaisedOnLogin(error) ==
    /\ error # NoError
    /\ \/ error.onClose.kind = "reset"
       \/ error.onClose.kind = "resetIfLogin" /\ error.onClose.scene = "login"
C12_LoadingReset ==
    [][((DismissError \/ ErrorTimerFire)
            /\ app.currentScene = "login" /\ RaisedOnLogin(app.error))
         => ~login'.isLoading]_vars

\* C13: once App has unmounted and called disconnect(), and with nobody
\* calling connect(), the service stays as disconnect() left it: ws null,
\* isConnected false, no reconnect timer pending, none of App's handlers in
\* the map.
C13_DisconnectForGood ==
    ~mounted => /\ ws = "null"
                /\ ~isConnected
                /\ timers = 0
                /\ DOMAIN messageHandlers \subseteq {"EXT"}

\* C14: at most one socket the service created is connecting or open, and
\* isConnected is true exactly when the socket ws refers to is open.
C14_SingleSocket ==
    /\ LiveSockets <= 1
    /\ isConnected <=> (ws = "open")

\* C15: a click that calls onJoin while the service is not connected calls
\* connect() and sends nothing yet; while it is connected it calls no
\* connect(); when the awaited connection opens, exactly one request goes
\* out, GAME_CREATE with the username for an empty lobby code and otherwise
\* REQUEST_JOIN with the username and that code; when the awaited connection
\* fails nothing is sent and a mounted App shows a CONNECTION_ERROR; no other
\* step sends GAME_CREATE or REQUEST_JOIN; and whenever the send of the
\* request would return false the error set is a CONNECTION_ERROR.
JoinClicked == (Submit \/ CreateLobby) /\ ~login.isLoading /\ login'.isLoading
ExpectedRequest(w) ==
    IF w.lobbyCode = <<>>
    THEN JSONstringify(JObj([type |-> JStr("GAME_CREATE"),
                             data |-> JObj([username |-> JText(w.username)])]))
    ELSE JSONstringify(JObj([type |-> JStr("REQUEST_JOIN"),
                             data |-> JObj([username |-> JText(w.username),
                                            lobby |-> JCode(w.lobbyCode)])]))
IsJoinRequest(text) == text.v.f["type"].v \in {"GAME_CREATE", "REQUEST_JOIN"}
ShowsConnectionError(a) ==
    a.error # NoError /\ a.error.code = JStr("CONNECTION_ERROR")
C15_JoinRequest ==
    /\ [][JoinClicked
            => IF isConnected
               THEN UNCHANGED <<ws, orphans>> /\ ~joinWait'.active
               ELSE ws' = "connecting" /\ joinWait'.active /\ sent' = <<>>]_vars
    /\ [][(joinWait.active /\ ~joinWait'.active)
            => IF WsOpen
               THEN sent' = <<ExpectedRequest(joinWait)>>
               ELSE sent' = <<>> /\ (mounted => ShowsConnectionError(app'))]_vars
    /\ [][(\E i \in DOMAIN sent' : IsJoinRequest(sent'[i]))
            => (joinWait.active \/ (JoinClicked /\ isConnected))]_vars
    /\ [](\A connected \in BOOLEAN, sock \in {"null", "connecting", "open", "closing", "closed"},
            code \in SomeCodes :
             LET r == JoinSend(app.username, code, app, connected, sock)
                 ok == IF code = <<>>
                       THEN createGame(JText(app.username), connected, sock).ok
                       ELSE requestJoin(JText(app.username), JCode(code), connected, sock).ok
             IN  ~ok => (r.wire = <<>> /\ ShowsConnectionError(r.app)))

\* the click was Create New Lobby, the connection opened, one GAME_CREATE went out
C15_Witness ==
    /\ ws = "open"
    /\ ~joinWait.active
    /\ login.isLoading
    /\ Len(sent) = 1
    /\ sent[1].v.f["type"].v = "GAME_CREATE"
    /\ sent[1].v.f["data"].f["username"].s = app.username

\* C16: a call of send returns true exactly when isConnected was true, ws
\* was not null and the socket's send did not throw; it returns false and
\* nothing is transmitted when isConnected is false or ws is null, and false
\* when the socket's send throws; no exception leaves it; isConnected,
\* reconnectAttempts and the handler map are as before.
SocketThrows(type, data) ==
    SocketSend(ws, JSONstringify(JObj([type |-> JStr(type), data |-> data]))).threw
C16_SendResult ==
    [][\A type \in SendTypes, data \in SendData :
          ExtSend(type, data)
             => /\ (returned' = "true")
                      = (isConnected /\ ws # "null" /\ ~SocketThrows(type, data))
                /\ returned' \in {"true", "false"}
                /\ (~isConnected \/ ws = "null") => (returned' = "false" /\ sent' = <<>>)
                /\ (isConnected /\ ws # "null" /\ SocketThrows(type, data))
                      => (returned' = "false" /\ sent' = <<>>)
                /\ sent' # <<>> => returned' = "true"
                /\ ~escaped'
                /\ UNCHANGED <<isConnected, reconnectAttempts, messageHandlers>>]_vars

\* send was called while isConnected was true and the socket ws refers to
\* was still connecting: the socket's send threw and send returned false
C16_Witness ==
    /\ returned = "false"
    /\ isConnected
    /\ ws = "connecting"
    /\ sent = <<>>
    /\ ~escaped

\* C17: the frames given to a handler are given in the order in which they
\* arrived, and each frame is given to a handler at most once and to at most
\* one handler.
C17_InOrder ==
    /\ \A i, j \in DOMAIN dispatchLog : i < j => dispatchLog[i] < dispatchLog[j]
    /\ Len(invoked) <= 1

====
